---- MODULE Spec2Model ----
(***************************************************************************)
(* Model of FrEIA/modules/fixed_transforms.py: the four fixed invertible   *)
(* layers PermuteRandom, FixedLinearTransform, LogitTransform and          *)
(* Fixed1x1Conv.                                                           *)
(*                                                                         *)
(* Numbers.  Tensor entries are exact rationals [n, d] (d > 0, lowest      *)
(* terms).  A logarithm is kept exactly as a finite map from primes to     *)
(* integer exponents counted in halves: the set {<<p, e>>} stands for      *)
(* the real number  SUM (e/2) * ln(p).  Floating-point rounding is not     *)
(* modelled.                                                               *)
(***************************************************************************)
EXTENDS Integers, Sequences, FiniteSets, TLC

VARIABLES
    np_state,      \* the states NumPy's global generator may be in
    perms,         \* the PermuteRandom layers built, in order
    lin,           \* the FixedLinearTransform layer
    logit,         \* the LogitTransform layer
    conv,          \* the Fixed1x1Conv layer
    call,          \* the call made last: operation, arguments, result
    prev,          \* the forward call whose output the last call took as input
    last_forward   \* the arguments of the last LogitTransform.forward call

vars == <<np_state, perms, lin, logit, conv, call, prev, last_forward>>

-----------------------------------------------------------------------------
(* Bounds of the model *)

\* size of the stand-in state space of NumPy's global generator
RngMod == 3
\* seeds 0..MaxSeed
MaxSeed == 1
\* channel counts 1..MaxN of PermuteRandom
MaxN == 3
\* PermuteRandom layers alive in one session
MaxLayers == 2
\* rows in an input batch 1..MaxBatch
MaxBatch == 2
\* matrix entries range over -1..MaxEntry
MaxEntry == 2
\* image heights and widths 1..MaxHW
MaxHW == 2

-----------------------------------------------------------------------------
(* Exact rational arithmetic *)

Abs(k) == IF k < 0 THEN -k ELSE k

RECURSIVE GCD(_, _)
GCD(a, b) == IF b = 0 THEN a ELSE GCD(b, a % b)

Rat(n, d) ==
    LET g == GCD(Abs(n), Abs(d))
        s == IF d < 0 THEN -1 ELSE 1
    IN  [n |-> (s * n) \div g, d |-> (s * d) \div g]

RInt(k) == [n |-> k, d |-> 1]
RAdd(a, b) == Rat(a.n * b.d + b.n * a.d, a.d * b.d)
RSub(a, b) == Rat(a.n * b.d - b.n * a.d, a.d * b.d)
RMul(a, b) == Rat(a.n * b.n, a.d * b.d)
RDiv(a, b) == Rat(a.n * b.d, a.d * b.n)
RAbs(a) == [n |-> Abs(a.n), d |-> a.d]

RECURSIVE RSum(_)
RSum(s) == IF s = <<>> THEN RInt(0) ELSE RAdd(Head(s), RSum(Tail(s)))

-----------------------------------------------------------------------------
(* Exact logarithms: {<<p, e>>} is SUM (e/2)*ln(p), e # 0, one pair per p *)

LExp(v, p) == IF \E t \in v : t[1] = p THEN (CHOOSE t \in v : t[1] = p)[2] ELSE 0

LZero == {}

LAdd(a, b) ==
    LET ps == {t[1] : t \in a \cup b}
    IN  {t \in {<<p, LExp(a, p) + LExp(b, p)>> : p \in ps} : t[2] # 0}

LScale(k, a) == {t \in {<<u[1], k * u[2]>> : u \in a} : t[2] # 0}
LNeg(a) == LScale(-1, a)
LSub(a, b) == LAdd(a, LNeg(b))

RECURSIVE LSum(_)
LSum(s) == IF s = <<>> THEN LZero ELSE LAdd(Head(s), LSum(Tail(s)))

\* ln(k) for an integer k >= 1, by trial division from p upward
RECURSIVE LnFrom(_, _)
LnFrom(k, p) ==
    IF k = 1 THEN LZero
    ELSE IF p * p > k THEN {<<k, 2>>}
    ELSE IF k % p = 0 THEN LAdd({<<p, 2>>}, LnFrom(k \div p, p))
    ELSE LnFrom(k, p + 1)

\* torch.log of a positive rational
Ln(r) == LSub(LnFrom(r.n, 2), LnFrom(r.d, 2))

\* half of a logarithm whose exponents are all even multiples
LHalf(v) == {<<t[1], t[2] \div 2>> : t \in v}

RECURSIVE IPow(_, _)
IPow(b, e) == IF e = 0 THEN 1 ELSE b * IPow(b, e - 1)

RECURSIVE ProdPow(_, _)
ProdPow(v, sign) ==
    IF v = {} THEN 1
    ELSE LET t == CHOOSE t \in v : TRUE
             f == IF sign * t[2] > 0 THEN IPow(t[1], (sign * t[2]) \div 2) ELSE 1
         IN  f * ProdPow(v \ {t}, sign)

\* a logarithm of a rational small enough to be written out
Expressible(v) == \A t \in v : t[2] % 2 = 0 /\ Abs(t[2]) <= 8

\* exp of an expressible logarithm
Exp(v) == [n |-> ProdPow(v, 1), d |-> ProdPow(v, -1)]

-----------------------------------------------------------------------------
(* numpy.random: a small congruential generator stands in for MT19937.    *)
(* np_state is the set of states the global generator may be in: after    *)
(* np.random.seed() (seeded from OS entropy) that is every state.         *)

NpStates == 0 .. RngMod - 1

\* np.random.seed(seed): the state is a function of the seed alone
NpSeed(seed) == seed % RngMod

\* one draw: the next state (full period for every modulus)
NpNext(st) == (st + 1) % RngMod

\* np.random.permutation(n): arange(n), then Fisher-Yates from the top,
\* j drawn in 0..i; returns the permutation and the generator state after
RECURSIVE NpShuffle(_, _, _)
NpShuffle(arr, i, st) ==
    IF i < 1 THEN [perm |-> arr, state |-> st]
    ELSE LET st2 == NpNext(st)
             j == st2 % (i + 1)
             sw == [arr EXCEPT ![i] = arr[j], ![j] = arr[i]]
         IN  NpShuffle(sw, i - 1, st2)

NpPermutation(n, st) == NpShuffle([k \in 0 .. n - 1 |-> k], n - 1, st)

-----------------------------------------------------------------------------
(* PermuteRandom *)

\* lines 14-15 without the call of np.random.seed(seed)
DrawPermUnseeded(n, seed, st) == NpPermutation(n, st).perm

\* lines 14-15: seed the global generator, then draw the permutation
DrawPerm(n, seed, st) == NpPermutation(n, NpSeed(seed)).perm

\* lines 18-20 with index and value exchanged
InvertPermSwapped(perm, n) == [k \in 0 .. n - 1 |-> perm[k]]

\* lines 18-20: perm_inv = zeros_like(perm); for i, p: perm_inv[p] = i
RECURSIVE InvertLoop(_, _, _, _)
InvertLoop(perm, inv, i, n) ==
    IF i >= n THEN inv
    ELSE InvertLoop(perm, [inv EXCEPT ![perm[i]] = i], i + 1, n)

InvertPerm(perm, n) == InvertLoop(perm, [k \in 0 .. n - 1 |-> 0], 0, n)

\* x[0][:, idx]: column j of the result is column idx[j] of x
IndexColumns(x, idx, n) ==
    [r \in DOMAIN x |-> [j \in 0 .. n - 1 |-> x[r][idx[j]]]]

PermuteRandom_forward(self, x, rev) ==
    IF ~rev THEN IndexColumns(x, self.perm, self.in_channels)
    ELSE IndexColumns(x, self.perm_inv, self.in_channels)

\* lines 31-33: the Python float 0.
PermuteRandom_jacobian(self, x, rev) == [float |-> 0]

NoCall == [op |-> "none"]

\* the Python int 0, and a tensor with one logarithm per batch row
PyZero == [int |-> 0]
Tensor(v) == [tensor |-> v]

Absent == [state |-> "absent"]

\* a session exercises one class: the layers are independent leaves
OnlyPerms == lin.state = "absent" /\ logit.state = "absent" /\ conv.state = "absent"

\* input rows of a layer with n channels: distinct entries, so that every
\* reordering of the columns shows
PermRows(n) == <<[j \in 0 .. n - 1 |-> 10 + j]>>

\* input batches made of the given rows: every row alone, and for each batch
\* size up to MaxBatch the batch that runs through the rows in turn
Batches(rows) ==
    {<<rows[k]>> : k \in 1 .. Len(rows)}
    \cup {[i \in 1 .. B |-> rows[((i - 1) % Len(rows)) + 1]] : B \in 2 .. MaxBatch}

NewPermuteRandom(n, seed) ==
    /\ OnlyPerms
    /\ Len(perms) < MaxLayers
    /\ \E st \in np_state :
          LET p == DrawPerm(n, seed, st)
          IN  perms' = Append(perms, [in_channels |-> n, seed |-> seed,
                                      perm |-> p, perm_inv |-> InvertPerm(p, n)])
    \* line 16, np.random.seed(): reseeded from OS entropy
    /\ np_state' = NpStates
    /\ call' = [op |-> "__init__", cls |-> "PermuteRandom"]
    /\ prev' = NoCall
    /\ UNCHANGED <<lin, logit, conv, last_forward>>

\* the PermuteRandom layer the session calls: the one built last
CurPerm == perms[Len(perms)]

\* a forward call may take the output of the forward call before it
Chained(cls) == call.op = "forward" /\ call.cls = cls /\ prev.op = "none"

PermForward(x, rev, chained) ==
    /\ perms # <<>>
    /\ chained => Chained("PermuteRandom")
    /\ call' = [op |-> "forward", cls |-> "PermuteRandom", rev |-> rev, x |-> x,
                out |-> PermuteRandom_forward(CurPerm, x, rev)]
    /\ prev' = IF chained THEN call ELSE NoCall
    /\ UNCHANGED <<np_state, perms, lin, logit, conv, last_forward>>

PermJacobian(x, rev) ==
    /\ perms # <<>>
    /\ call' = [op |-> "jacobian", cls |-> "PermuteRandom", rev |-> rev, x |-> x,
                out |-> PermuteRandom_jacobian(CurPerm, x, rev)]
    /\ prev' = NoCall
    /\ UNCHANGED <<np_state, perms, lin, logit, conv, last_forward>>

\* shapes passed to output_dims
DimLists == {<<<<n>>>> : n \in 1 .. MaxN} \cup {<<<<1>>, <<2>>>>}

\* line 36-37: assert len(input_dims) == 1; return input_dims
PermuteRandom_output_dims(input_dims) ==
    IF Len(input_dims) = 1 THEN [raised |-> "none", out |-> input_dims]
    ELSE [raised |-> "AssertionError", out |-> <<>>]

PermOutputDims(input_dims) ==
    /\ perms # <<>>
    /\ LET r == PermuteRandom_output_dims(input_dims)
       IN  call' = [op |-> "output_dims", cls |-> "PermuteRandom",
                    x |-> input_dims, out |-> r.out, raised |-> r.raised]
    /\ prev' = NoCall
    /\ UNCHANGED <<np_state, perms, lin, logit, conv, last_forward>>

-----------------------------------------------------------------------------
(* Matrices: sequences of rows of rationals *)

Transpose(M) == [i \in 1 .. Len(M) |-> [j \in 1 .. Len(M) |-> M[j][i]]]

\* M without row i and column j
Minor(M, i, j) ==
    LET n == Len(M)
        Skip(k, at) == IF k < at THEN k ELSE k + 1
    IN  [r \in 1 .. n - 1 |-> [c \in 1 .. n - 1 |-> M[Skip(r, i)][Skip(c, j)]]]

\* torch.det: expansion along the first row
RECURSIVE Det(_)
Det(M) ==
    IF Len(M) = 0 THEN RInt(1)
    ELSE RSum([j \in 1 .. Len(M) |->
                 RMul(RInt(IF j % 2 = 1 THEN 1 ELSE -1),
                      RMul(M[1][j], Det(Minor(M, 1, j))))])

Cofactor(M, i, j) ==
    RMul(RInt(IF (i + j) % 2 = 0 THEN 1 ELSE -1), Det(Minor(M, i, j)))

\* Tensor.inverse(): raises on a singular matrix
Inverse(M) ==
    LET d == Det(M)
    IN  IF d.n = 0 THEN [raised |-> "RuntimeError"]
        ELSE [raised |-> "none",
              out |-> [i \in 1 .. Len(M) |->
                         [j \in 1 .. Len(M) |-> RDiv(Cofactor(M, j, i), d)]]]

\* Tensor.mm: (x.mm(M))[r][j] = SUM_k x[r][k] * M[k][j]
MatMul(x, M) ==
    [r \in 1 .. Len(x) |->
        [j \in 1 .. Len(M) |-> RSum([k \in 1 .. Len(M) |-> RMul(x[r][k], M[k][j])])]]

\* x + b and x - b with the row b broadcast over the batch
AddRow(x, b) == [r \in 1 .. Len(x) |-> [j \in 1 .. Len(b) |-> RAdd(x[r][j], b[j])]]
SubRow(x, b) == [r \in 1 .. Len(x) |-> [j \in 1 .. Len(b) |-> RSub(x[r][j], b[j])]]

\* torch.cholesky(A) (lower factor L, A = L L^T), reading the lower triangle
\* of A only, as LAPACK's potrf does.  The diagonal of L is kept by its
\* squares D[j] = L[j][j]^2; U[i][j] = L[i][j] / L[j][j].  It raises as soon
\* as a pivot D[j] is not positive.
RECURSIVE CholeskyFrom(_, _, _, _)
CholeskyFrom(A, j, D, U) ==
    IF j > Len(A) THEN [raised |-> "none", diag_sq |-> D]
    ELSE LET Dj == RSub(A[j][j],
                        RSum([k \in 1 .. j - 1 |-> RMul(RMul(U[j][k], U[j][k]), D[k])]))
             Uij(i) == RDiv(RSub(A[i][j],
                                 RSum([k \in 1 .. j - 1 |->
                                         RMul(RMul(U[i][k], U[j][k]), D[k])])),
                            Dj)
         IN  IF Dj.n <= 0 THEN [raised |-> "RuntimeError"]
             ELSE CholeskyFrom(A, j + 1, Append(D, Dj),
                               [i \in 1 .. Len(A) |->
                                  [c \in 1 .. Len(A) |->
                                     IF c = j /\ i > j THEN Uij(i) ELSE U[i][c]]])

Cholesky(A) ==
    CholeskyFrom(A, 1, <<>>,
                 [i \in 1 .. Len(A) |-> [c \in 1 .. Len(A) |-> RInt(0)]])

\* torch.log(L.diag()).sum() for the factor L kept by the squares of its diagonal
LogDiagSum(diag_sq) == LSum([j \in 1 .. Len(diag_sq) |-> LHalf(Ln(diag_sq[j]))])

\* Tensor.expand(B) of a scalar
Expand(v, B) == [r \in 1 .. B |-> v]

-----------------------------------------------------------------------------
(* FixedLinearTransform *)

\* line 51: torch.log(torch.cholesky(M).diag()).sum()
LogDetFromCholesky(M) ==
    LET c == Cholesky(M)
    IN  IF c.raised # "none" THEN c
        ELSE [raised |-> "none", out |-> LogDiagSum(c.diag_sq)]

\* lines 44-52
FixedLinearTransform_init(M, b) ==
    LET inv == Inverse(Transpose(M))
        ld == LogDetFromCholesky(M)
        args == [M |-> M, b |-> b]
    IN  IF inv.raised # "none"
        THEN [state |-> "raised", raised |-> inv.raised, line |-> 48, args |-> args]
        ELSE IF ld.raised # "none"
        THEN [state |-> "raised", raised |-> ld.raised, line |-> 51, args |-> args]
        ELSE [state |-> "ok", args |-> args, M |-> Transpose(M), M_inv |-> inv.out,
              b |-> b, logDetM |-> ld.out]

\* line 59 without the subtraction of b
FixedLinearTransform_forward_nob(self, x, rev) ==
    IF ~rev THEN AddRow(MatMul(x, self.M), self.b)
    ELSE MatMul(x, self.M_inv)

\* lines 54-59
FixedLinearTransform_forward(self, x, rev) ==
    IF ~rev THEN AddRow(MatMul(x, self.M), self.b)
    ELSE MatMul(SubRow(x, self.b), self.M_inv)

\* lines 61-65
FixedLinearTransform_jacobian(self, x, rev) ==
    IF rev THEN Expand(LNeg(self.logDetM), Len(x))
    ELSE Expand(self.logDetM, Len(x))

\* lines 67-68
FixedLinearTransform_output_dims(input_dims) == input_dims

Fresh == perms = <<>> /\ lin.state = "absent" /\ logit.state = "absent"
         /\ conv.state = "absent"

MatrixDims == {1, 2}

Entries == {RInt(k) : k \in -1 .. MaxEntry}

Matrices == UNION {[1 .. n -> [1 .. n -> Entries]] : n \in MatrixDims}

Offsets(n) == {[j \in 1 .. n |-> RInt(0)], [j \in 1 .. n |-> RInt(j)]}

\* input rows with n columns
LinRows(n) == <<[j \in 1 .. n |-> RInt(j + 1)],
                [j \in 1 .. n |-> RInt(IF j = 1 THEN 1 ELSE 0)]>>

NewFixedLinearTransform(M, b) ==
    /\ Fresh
    /\ lin' = FixedLinearTransform_init(M, b)
    /\ call' = [op |-> "__init__", cls |-> "FixedLinearTransform"]
    /\ prev' = NoCall
    /\ UNCHANGED <<np_state, perms, logit, conv, last_forward>>

LinForward(x, rev, chained) ==
    /\ lin.state = "ok"
    /\ chained => Chained("FixedLinearTransform")
    /\ call' = [op |-> "forward", cls |-> "FixedLinearTransform", rev |-> rev, x |-> x,
                out |-> FixedLinearTransform_forward(lin, x, rev)]
    /\ prev' = IF chained THEN call ELSE NoCall
    /\ UNCHANGED <<np_state, perms, lin, logit, conv, last_forward>>

LinJacobian(x, rev) ==
    /\ lin.state = "ok"
    /\ call' = [op |-> "jacobian", cls |-> "FixedLinearTransform", rev |-> rev, x |-> x,
                out |-> FixedLinearTransform_jacobian(lin, x, rev)]
    /\ prev' = NoCall
    /\ UNCHANGED <<np_state, perms, lin, logit, conv, last_forward>>

LinOutputDims(input_dims) ==
    /\ lin.state = "ok"
    /\ call' = [op |-> "output_dims", cls |-> "FixedLinearTransform", x |-> input_dims,
                out |-> FixedLinearTransform_output_dims(input_dims), raised |-> "none"]
    /\ prev' = NoCall
    /\ UNCHANGED <<np_state, perms, lin, logit, conv, last_forward>>

-----------------------------------------------------------------------------
(* LogitTransform *)

\* the default of the parameter scaling (line 74): 0.99
DefaultScaling == Rat(99, 100)

\* the exponent of the clamp in safe_log (line 84): 1e-22
SafeLogExp == 22

\* names bound at module level by the file, and the names local to
\* LogitTransform.__init__; no builtin is called mine
ModuleGlobals == {"np", "torch", "nn", "F", "PermuteRandom", "FixedLinearTransform",
                  "LogitTransform", "Fixed1x1Conv", "warnings", "_deprecated_by",
                  "permute_layer", "linear_transform", "conv_1x1"}
LogitInitLocals == {"self", "dims_in", "scaling", "__class__"}
Builtins == {"super", "len", "enumerate"}

\* reading a bare name: local, then module global, then builtin, else NameError
NameLookup(name, locals) ==
    IF name \in locals \cup ModuleGlobals \cup Builtins THEN "none" ELSE "NameError"

\* lines 74-79.  Lines 77-78 have run when line 79 reads the name mine.
LogitTransform_init(scaling) ==
    LET s == IF scaling.omitted THEN DefaultScaling ELSE scaling.value
        r == NameLookup("mine", LogitInitLocals)
    IN  IF r # "none"
        THEN [state |-> "raised", raised |-> r, line |-> 79, args |-> scaling,
              scaling |-> s, last_jac |-> PyZero]
        ELSE [state |-> "ok", raised |-> "none", line |-> 0, args |-> scaling,
              scaling |-> s, last_jac |-> PyZero]

\* ln(1e-22)
LnEps == LScale(-SafeLogExp, Ln(RInt(10)))

\* line 83-84: torch.log(x.clamp(min=1e-22)).  Every positive rational of the
\* model has a denominator below 2^31, so it is above 1e-22 and the clamp
\* acts exactly on the values <= 0.
safe_log(r) == IF r.n <= 0 THEN LnEps ELSE Ln(r)

\* torch.sigmoid of ln(r): r / (1 + r)
Sigmoid(v) == LET r == Exp(v) IN Rat(r.n, r.n + r.d)

\* (...).sum(-1)
SumLast(x) == [r \in 1 .. Len(x) |-> LSum(x[r])]

\* line 88
ScaleIn(self, v) ==
    RDiv(RAdd(RMul(RSub(RMul(RInt(2), v), RInt(1)), self.scaling), RInt(1)), RInt(2))

\* line 90, line 93 and line 100, for one entry z
LogitOf(z) == LSub(safe_log(z), safe_log(RSub(RInt(1), z)))
LogJacForward(z) == LSub(LNeg(safe_log(z)), safe_log(RSub(RInt(1), z)))
LogJacReverse(z) == LAdd(safe_log(z), safe_log(RSub(RInt(1), z)))

\* lines 81-101; the result is the returned tensor and the layer afterwards
LogitTransform_forward(self, x, rev) ==
    IF ~rev
    THEN LET z == [r \in 1 .. Len(x) |-> [j \in 1 .. Len(x[r]) |-> ScaleIn(self, x[r][j])]]
             jac == [r \in 1 .. Len(x) |-> [j \in 1 .. Len(x[r]) |-> LogJacForward(z[r][j])]]
         IN  [out |-> [r \in 1 .. Len(x) |-> [j \in 1 .. Len(x[r]) |-> LogitOf(z[r][j])]],
              self |-> [self EXCEPT !.last_jac = Tensor(SumLast(jac))]]
    ELSE LET z == [r \in 1 .. Len(x) |-> [j \in 1 .. Len(x[r]) |-> Sigmoid(x[r][j])]]
             jac == [r \in 1 .. Len(x) |-> [j \in 1 .. Len(x[r]) |-> LogJacReverse(z[r][j])]]
         IN  [out |-> z,
              self |-> [self EXCEPT !.last_jac = Tensor(SumLast(jac))]]

\* lines 103-104 with the sign convention of the linear layers
LogitTransform_jacobian_signed(self, x, rev) ==
    [out |-> IF rev /\ self.last_jac # PyZero
             THEN Tensor([r \in 1 .. Len(self.last_jac.tensor) |->
                            LNeg(self.last_jac.tensor[r])])
             ELSE self.last_jac,
     self |-> self]

\* lines 103-104 with the cache cleared once it is read
LogitTransform_jacobian_clearing(self, x, rev) ==
    [out |-> self.last_jac, self |-> [self EXCEPT !.last_jac = PyZero]]

\* lines 103-104
LogitTransform_jacobian(self, x, rev) == [out |-> self.last_jac, self |-> self]

\* lines 106-107
LogitTransform_output_dims(input_dims) == input_dims

\* the argument scaling: left out, or a value
Scalings == {[omitted |-> TRUE]}
            \cup {[omitted |-> FALSE, value |-> v] : v \in {Rat(1, 2), RInt(1)}}

FeatureCounts == {1, 2}

\* input rows of forward with rev=False
LogitRows(n) ==
    IF n = 1 THEN <<<<Rat(1, 4)>>, <<RInt(1)>>>>
    ELSE <<<<Rat(1, 4), Rat(3, 4)>>, <<RInt(0), Rat(1, 2)>>>>

\* input rows of forward with rev=True: logarithms
LogitRevRows(n) ==
    IF n = 1 THEN <<<<Ln(RInt(3))>>, <<LZero>>>>
    ELSE <<<<Ln(Rat(1, 3)), Ln(RInt(2))>>, <<LZero, Ln(Rat(3, 2))>>>>

ExpressibleBatch(x) == \A r \in 1 .. Len(x) : \A j \in 1 .. Len(x[r]) : Expressible(x[r][j])

NewLogitTransform(scaling) ==
    /\ Fresh
    /\ logit' = LogitTransform_init(scaling)
    /\ call' = [op |-> "__init__", cls |-> "LogitTransform"]
    /\ prev' = NoCall
    /\ UNCHANGED <<np_state, perms, lin, conv, last_forward>>

\* The methods are called on the instance the constructor was run on: it
\* carries scaling and last_jac also when line 79 raised.
LogitForward(x, rev, chained) ==
    /\ logit.state # "absent"
    \* a chained call takes a logarithm with rev=True and a number with
    \* rev=False, and only a logarithm that can be written out
    /\ chained => /\ Chained("LogitTransform") /\ rev # call.rev
                  /\ rev => ExpressibleBatch(x)
    /\ LET r == LogitTransform_forward(logit, x, rev)
       IN  /\ call' = [op |-> "forward", cls |-> "LogitTransform", rev |-> rev,
                       x |-> x, out |-> r.out]
           /\ logit' = r.self
    /\ last_forward' = [op |-> "forward", rev |-> rev, x |-> x]
    /\ prev' = IF chained THEN call ELSE NoCall
    /\ UNCHANGED <<np_state, perms, lin, conv>>

LogitJacobian(x, rev) ==
    /\ logit.state # "absent"
    /\ LET r == LogitTransform_jacobian(logit, x, rev)
       IN  /\ call' = [op |-> "jacobian", cls |-> "LogitTransform", rev |-> rev,
                       x |-> x, out |-> r.out]
           /\ logit' = r.self
    /\ prev' = NoCall
    /\ UNCHANGED <<np_state, perms, lin, conv, last_forward>>

LogitOutputDims(input_dims) ==
    /\ logit.state # "absent"
    /\ call' = [op |-> "output_dims", cls |-> "LogitTransform", x |-> input_dims,
                out |-> LogitTransform_output_dims(input_dims), raised |-> "none"]
    /\ prev' = NoCall
    /\ UNCHANGED <<np_state, perms, lin, logit, conv, last_forward>>

-----------------------------------------------------------------------------
(* Fixed1x1Conv: tensors x[b][c][h][w] *)

\* F.conv2d(x, W) with a 1x1 kernel W[o][i]: out[b][o][h][w] = SUM_i W[o][i] x[b][i][h][w]
Conv2d(x, W) ==
    [b \in 1 .. Len(x) |->
       [o \in 1 .. Len(W) |->
          [h \in 1 .. Len(x[b][1]) |->
             [w \in 1 .. Len(x[b][1][h]) |->
                RSum([i \in 1 .. Len(W) |-> RMul(W[o][i], x[b][i][h][w])])]]]]

\* lines 149-156
Fixed1x1Conv_init(M) ==
    LET inv == Inverse(Transpose(M))
    IN  IF inv.raised # "none"
        THEN [state |-> "raised", raised |-> inv.raised, line |-> 153, args |-> M]
        ELSE [state |-> "ok", args |-> M, M |-> Transpose(M), M_inv |-> inv.out,
              logDetM |-> Ln(RAbs(Det(M)))]

\* lines 158-162
Fixed1x1Conv_forward(self, x, rev) ==
    IF ~rev THEN Conv2d(x, self.M) ELSE Conv2d(x, self.M_inv)

\* lines 164-168
Fixed1x1Conv_jacobian(self, x, rev) ==
    IF rev THEN Expand(LNeg(self.logDetM), Len(x))
    ELSE Expand(self.logDetM, Len(x))

\* lines 170-171
Fixed1x1Conv_output_dims(input_dims) == input_dims

\* spatial shapes <<H, W>>
Shapes == {<<h, w>> : h \in 1 .. MaxHW, w \in 1 .. MaxHW}

\* channel matrices: entries -1, 0, 1
ConvMatrices == UNION {[1 .. n -> [1 .. n -> {RInt(k) : k \in -1 .. 1}]] : n \in MatrixDims}

\* the input image with C channels of shape <<H, W>>
Image(C, hw) ==
    [c \in 1 .. C |-> [h \in 1 .. hw[1] |-> [w \in 1 .. hw[2] |-> RInt(c + 2 * h + 3 * w)]]]

\* input batches: one image of every shape, and a batch of each size of the
\* smallest image
ConvBatches(C) ==
    {<<Image(C, hw)>> : hw \in Shapes}
    \cup {[b \in 1 .. B |-> Image(C, <<1, 1>>)] : B \in 2 .. MaxBatch}

NewFixed1x1Conv(M) ==
    /\ Fresh
    /\ conv' = Fixed1x1Conv_init(M)
    /\ call' = [op |-> "__init__", cls |-> "Fixed1x1Conv"]
    /\ prev' = NoCall
    /\ UNCHANGED <<np_state, perms, lin, logit, last_forward>>

ConvForward(x, rev, chained) ==
    /\ conv.state = "ok"
    /\ chained => Chained("Fixed1x1Conv")
    /\ call' = [op |-> "forward", cls |-> "Fixed1x1Conv", rev |-> rev, x |-> x,
                out |-> Fixed1x1Conv_forward(conv, x, rev)]
    /\ prev' = IF chained THEN call ELSE NoCall
    /\ UNCHANGED <<np_state, perms, lin, logit, conv, last_forward>>

ConvJacobian(x, rev) ==
    /\ conv.state = "ok"
    /\ call' = [op |-> "jacobian", cls |-> "Fixed1x1Conv", rev |-> rev, x |-> x,
                out |-> Fixed1x1Conv_jacobian(conv, x, rev)]
    /\ prev' = NoCall
    /\ UNCHANGED <<np_state, perms, lin, logit, conv, last_forward>>

ConvOutputDims(input_dims) ==
    /\ conv.state = "ok"
    /\ call' = [op |-> "output_dims", cls |-> "Fixed1x1Conv", x |-> input_dims,
                out |-> Fixed1x1Conv_output_dims(input_dims), raised |-> "none"]
    /\ prev' = NoCall
    /\ UNCHANGED <<np_state, perms, lin, logit, conv, last_forward>>

-----------------------------------------------------------------------------

Init ==
    /\ np_state = NpStates
    /\ perms = <<>>
    /\ lin = Absent
    /\ logit = Absent
    /\ conv = Absent
    /\ call = NoCall
    /\ prev = NoCall
    /\ last_forward = NoCall

\* the input batches that fit the layer called
PermInputs == [n \in 1 .. MaxN |-> Batches(PermRows(n))]
LinInputs == [n \in MatrixDims |-> Batches(LinRows(n))]
ConvInputs == [C \in MatrixDims |-> ConvBatches(C)]
LogitInputs == [rev \in BOOLEAN |->
    UNION {Batches(IF rev THEN LogitRevRows(n) ELSE LogitRows(n)) : n \in FeatureCounts}]

NextPerm ==
    \/ \E n \in 1 .. MaxN, seed \in 0 .. MaxSeed : NewPermuteRandom(n, seed)
    \/ /\ perms # <<>>
       /\ \E x \in PermInputs[CurPerm.in_channels], rev \in BOOLEAN :
             PermForward(x, rev, FALSE)
    \/ \E rev \in BOOLEAN : call.op = "forward" /\ PermForward(call.out, rev, TRUE)
    \/ /\ perms # <<>>
       /\ \E x \in PermInputs[CurPerm.in_channels], rev \in BOOLEAN : PermJacobian(x, rev)
    \/ \E d \in DimLists : PermOutputDims(d)

NextLin ==
    \/ \E M \in Matrices : \E b \in Offsets(Len(M)) : NewFixedLinearTransform(M, b)
    \/ /\ lin.state = "ok"
       /\ \E x \in LinInputs[Len(lin.M)], rev \in BOOLEAN : LinForward(x, rev, FALSE)
    \/ \E rev \in BOOLEAN : call.op = "forward" /\ LinForward(call.out, rev, TRUE)
    \/ /\ lin.state = "ok"
       /\ \E x \in LinInputs[Len(lin.M)], rev \in BOOLEAN : LinJacobian(x, rev)
    \/ \E d \in DimLists : LinOutputDims(d)

NextLogit ==
    \/ \E s \in Scalings : NewLogitTransform(s)
    \/ \E rev \in BOOLEAN : \E x \in LogitInputs[rev] : LogitForward(x, rev, FALSE)
    \/ \E rev \in BOOLEAN : call.op = "forward" /\ LogitForward(call.out, rev, TRUE)
    \/ \E x \in LogitInputs[FALSE], rev \in BOOLEAN : LogitJacobian(x, rev)
    \/ \E d \in DimLists : LogitOutputDims(d)

NextConv ==
    \/ \E M \in ConvMatrices : NewFixed1x1Conv(M)
    \/ /\ conv.state = "ok"
       /\ \E x \in ConvInputs[Len(conv.M)], rev \in BOOLEAN : ConvForward(x, rev, FALSE)
    \/ \E rev \in BOOLEAN : call.op = "forward" /\ ConvForward(call.out, rev, TRUE)
    \/ /\ conv.state = "ok"
       /\ \E x \in ConvInputs[Len(conv.M)], rev \in BOOLEAN : ConvJacobian(x, rev)
    \/ \E d \in DimLists : ConvOutputDims(d)

Next == NextPerm \/ NextLin \/ NextLogit \/ NextConv

\* a session that builds and calls layers of any one class
Spec == Init /\ [][Next]_vars

\* sessions of one class
SpecPerm == Init /\ [][NextPerm]_vars
SpecLin == Init /\ [][NextLin]_vars
SpecLogit == Init /\ [][NextLogit]_vars
SpecConv == Init /\ [][NextConv]_vars

-----------------------------------------------------------------------------
(* Properties *)

IsCall(cls, op) == call.op = op /\ call.cls = cls

\* the last call took the output of a forward call in the other direction
IsRoundTrip(cls) ==
    IsCall(cls, "forward") /\ prev.op = "forward" /\ call.rev # prev.rev

\* C1: in every PermuteRandom layer perm_inv[perm[i]] = i and
\* perm[perm_inv[i]] = i for all i in 0..n-1, and forward in one direction
\* applied to the output of forward in the other direction returns the input.
C1_PermuteRoundTrip ==
    /\ \A i \in 1 .. Len(perms) : \A k \in 0 .. perms[i].in_channels - 1 :
          /\ perms[i].perm_inv[perms[i].perm[k]] = k
          /\ perms[i].perm[perms[i].perm_inv[k]] = k
    /\ IsRoundTrip("PermuteRandom") => call.out = prev.x

\* a round trip through a layer whose permutation is not its own inverse
C1_Witness ==
    /\ IsRoundTrip("PermuteRandom")
    /\ CurPerm.perm # CurPerm.perm_inv
    /\ prev.out # prev.x
    /\ call.out = prev.x

SameSeedSamePerm ==
    \A i, j \in 1 .. Len(perms) :
        (perms[i].in_channels = perms[j].in_channels /\ perms[i].seed = perms[j].seed)
            => (perms[i].perm = perms[j].perm /\ perms[i].perm_inv = perms[j].perm_inv)

PermsArePermutations ==
    \A i \in 1 .. Len(perms) :
        {perms[i].perm[k] : k \in 0 .. perms[i].in_channels - 1}
            = 0 .. perms[i].in_channels - 1

PermsKept == \A i \in 1 .. Len(perms) : Len(perms') >= i /\ perms'[i] = perms[i]

LogAbsDet(M) == Ln(RAbs(Det(M)))

\* C3: the stored logDetM of a FixedLinearTransform is log|det M|, and
\* jacobian returns it (rev=False) or its negation (rev=True) for every row.
C3_JacobianIsLogAbsDet ==
    /\ lin.state = "ok" => lin.logDetM = LogAbsDet(lin.args.M)
    /\ IsCall("FixedLinearTransform", "jacobian") =>
          call.out = Expand(IF call.rev THEN LNeg(LogAbsDet(lin.args.M))
                            ELSE LogAbsDet(lin.args.M), Len(call.x))

\* y = M x + b for the row x, with the matrix and offset given to the constructor
Affine(M, b, x) ==
    [i \in 1 .. Len(M) |->
        RAdd(RSum([j \in 1 .. Len(M) |-> RMul(M[i][j], x[j])]), b[i])]

\* C4: forward with rev=False maps each row x to Mx + b, and forward in one
\* direction applied to the output of forward in the other returns the input.
C4_LinearRoundTrip ==
    /\ (IsCall("FixedLinearTransform", "forward") /\ ~call.rev) =>
          \A r \in 1 .. Len(call.x) :
              call.out[r] = Affine(lin.args.M, lin.args.b, call.x[r])
    /\ IsRoundTrip("FixedLinearTransform") => call.out = prev.x

\* reverse then forward through a layer with a non-symmetric M and b # 0
C4_Witness ==
    /\ IsRoundTrip("FixedLinearTransform")
    /\ prev.rev /\ ~call.rev
    /\ Len(lin.args.M) = 2
    /\ lin.args.M[1][2] # lin.args.M[2][1]
    /\ lin.args.b[1] # RInt(0)
    /\ prev.out # prev.x
    /\ call.out = prev.x

InUnit(x) ==
    \A r \in 1 .. Len(x) : \A j \in 1 .. Len(x[r]) :
        x[r][j].n > 0 /\ x[r][j].n < x[r][j].d

\* C5: for input x with entries in (0,1), forward with rev=True applied to
\* the output of forward with rev=False returns x, and every value returned
\* by forward with rev=True lies in (0,1).
C5_LogitRoundTrip ==
    /\ (IsRoundTrip("LogitTransform") /\ call.rev /\ InUnit(prev.x)) => call.out = prev.x
    /\ (IsCall("LogitTransform", "forward") /\ call.rev) => InUnit(call.out)

\* C6: constructing LogitTransform raises nothing and yields a layer with
\* last_jac = 0 and, when scaling is left out, scaling = 0.99.
C6_LogitConstructs ==
    IsCall("LogitTransform", "__init__") =>
        /\ logit.state = "ok"
        /\ logit.last_jac = PyZero
        /\ logit.args.omitted => logit.scaling = Rat(99, 100)

\* C7: constructing FixedLinearTransform fails exactly when M is singular.
C7_FailsOnlyWhenSingular ==
    lin.state # "absent" => (lin.state = "raised" <=> Det(lin.args.M).n = 0)

\* C8: Fixed1x1Conv.jacobian returns for each batch element H*W*log|det M|
\* (rev=False) or its negation (rev=True).
C8_ConvJacobianWholeMap ==
    IsCall("Fixed1x1Conv", "jacobian") =>
        LET H == Len(call.x[1][1])
            W == Len(call.x[1][1][1])
            full == LScale(H * W, LogAbsDet(conv.args))
        IN  call.out = Expand(IF call.rev THEN LNeg(full) ELSE full, Len(call.x))

LinKept == lin.state # "absent" => lin' = lin
ConvKept == conv.state # "absent" => conv' = conv

====
